---- MODULE Spec2Model ----
(***************************************************************************)
(* Model of the DouPinPin bead-pattern generator: the generation pipeline  *)
(* PerlerBeadGenerator.generate (core/generator.ts), the chart layout and  *)
(* legend statistics of drawPattern (core/draw_utils.ts) and the React     *)
(* state machine of App.tsx that drives them.                              *)
(*                                                                         *)
(* Every TypeScript `number` is an IEEE-754 binary64 value.  The model     *)
(* represents such a value exactly, as sgn * m * 2^e with an arbitrarily   *)
(* long natural m held in 15-bit limbs, and rounds every arithmetic result *)
(* to 53 significant bits, ties to even, as the JavaScript engine does.    *)
(* Exponent overflow and subnormals cannot occur for the magnitudes of     *)
(* this program (pixel coordinates and colour sums) and are not modelled.  *)
(***************************************************************************)
EXTENDS Integers, Sequences, FiniteSets, TLC

(***************************************************************************)
(* Natural numbers of any size: little-endian sequences of limbs below     *)
(* Base, without leading (highest) zero limbs; zero is the empty sequence. *)
(***************************************************************************)
Base == 2^15

RECURSIVE BStrip(_)
BStrip(a) ==
  IF a = <<>> THEN a
  ELSE IF a[Len(a)] = 0 THEN BStrip(SubSeq(a, 1, Len(a) - 1)) ELSE a

RECURSIVE BFromInt(_)
BFromInt(n) == IF n = 0 THEN <<>> ELSE <<n % Base>> \o BFromInt(n \div Base)

RECURSIVE BToIntFrom(_, _)
BToIntFrom(a, i) == IF i > Len(a) THEN 0 ELSE a[i] + Base * BToIntFrom(a, i + 1)

BToInt(a) == BToIntFrom(a, 1)

RECURSIVE BAddC(_, _, _, _)
BAddC(a, b, i, c) ==
  IF i > Len(a) /\ i > Len(b)
  THEN (IF c = 0 THEN <<>> ELSE <<c>>)
  ELSE LET s == (IF i <= Len(a) THEN a[i] ELSE 0)
                + (IF i <= Len(b) THEN b[i] ELSE 0) + c
       IN  <<s % Base>> \o BAddC(a, b, i + 1, s \div Base)

BAdd(a, b) == BAddC(a, b, 1, 0)

RECURSIVE BSubC(_, _, _, _)
BSubC(a, b, i, c) ==
  IF i > Len(a) THEN <<>>
  ELSE LET d == a[i] - (IF i <= Len(b) THEN b[i] ELSE 0) - c
       IN  IF d < 0 THEN <<d + Base>> \o BSubC(a, b, i + 1, 1)
                    ELSE <<d>> \o BSubC(a, b, i + 1, 0)

\* a - b for a >= b
BSub(a, b) == BStrip(BSubC(a, b, 1, 0))

RECURSIVE BCmpFrom(_, _, _)
BCmpFrom(a, b, i) ==
  IF i = 0 THEN 0
  ELSE IF a[i] < b[i] THEN -1
  ELSE IF a[i] > b[i] THEN 1
  ELSE BCmpFrom(a, b, i - 1)

\* -1, 0 or 1 as a < b, a = b, a > b
BCmp(a, b) ==
  IF Len(a) < Len(b) THEN -1
  ELSE IF Len(a) > Len(b) THEN 1
  ELSE BCmpFrom(a, b, Len(a))

RECURSIVE BMulSmallC(_, _, _, _)
BMulSmallC(a, k, i, c) ==
  IF i > Len(a) THEN (IF c = 0 THEN <<>> ELSE <<c>>)
  ELSE LET p == a[i] * k + c
       IN  <<p % Base>> \o BMulSmallC(a, k, i + 1, p \div Base)

\* a * k for 0 <= k < Base
BMulSmall(a, k) == IF k = 0 THEN <<>> ELSE BMulSmallC(a, k, 1, 0)

RECURSIVE BMulFrom(_, _, _)
BMulFrom(a, b, i) ==
  IF i > Len(b) THEN <<>>
  ELSE LET rest == BMulFrom(a, b, i + 1)
       IN  BAdd(BMulSmall(a, b[i]), IF rest = <<>> THEN <<>> ELSE <<0>> \o rest)

BMul(a, b) == IF a = <<>> \/ b = <<>> THEN <<>> ELSE BMulFrom(a, b, 1)

RECURSIVE BDivSmallFrom(_, _, _, _)
BDivSmallFrom(a, k, i, r) ==
  IF i = 0 THEN [q |-> <<>>, r |-> r]
  ELSE LET cur  == r * Base + a[i]
           rest == BDivSmallFrom(a, k, i - 1, cur % k)
       IN  [q |-> rest.q \o <<cur \div k>>, r |-> rest.r]

\* quotient and remainder of a by k, 0 < k < Base
BDivSmall(a, k) ==
  LET d == BDivSmallFrom(a, k, Len(a), 0) IN [q |-> BStrip(d.q), r |-> d.r]

RECURSIVE Zeros(_)
Zeros(n) == IF n = 0 THEN <<>> ELSE <<0>> \o Zeros(n - 1)

\* a * 2^n
BShl(a, n) ==
  IF a = <<>> \/ n = 0 THEN a
  ELSE Zeros(n \div 15) \o BMulSmall(a, 2^(n % 15))

\* floor(a / 2^n)
BShr(a, n) ==
  IF n = 0 THEN a
  ELSE IF n \div 15 >= Len(a) THEN <<>>
  ELSE BDivSmall(SubSeq(a, (n \div 15) + 1, Len(a)), 2^(n % 15)).q

RECURSIVE IntBitLen(_)
IntBitLen(n) == IF n = 0 THEN 0 ELSE 1 + IntBitLen(n \div 2)

\* number of significant bits of a
BBitLen(a) == IF a = <<>> THEN 0 ELSE 15 * (Len(a) - 1) + IntBitLen(a[Len(a)])

RECURSIVE IntTrailingZeros(_)
IntTrailingZeros(n) == IF n % 2 = 1 THEN 0 ELSE 1 + IntTrailingZeros(n \div 2)

RECURSIVE BTrailingZerosFrom(_, _)
BTrailingZerosFrom(a, i) ==
  IF a[i] = 0 THEN 15 + BTrailingZerosFrom(a, i + 1) ELSE IntTrailingZeros(a[i])

\* number of trailing zero bits of a > 0
BTrailingZeros(a) == BTrailingZerosFrom(a, 1)

\* bit n (0 = lowest) of a
BBit(a, n) ==
  IF n \div 15 >= Len(a) THEN 0 ELSE (a[(n \div 15) + 1] \div 2^(n % 15)) % 2

RECURSIVE BDivDigit(_, _, _)
\* one digit of long division: q + floor(r / b) and the remainder, for
\* r < b * Base.  The leading limbs give an estimate that never exceeds the
\* digit; what is left of r is estimated again.
BDivDigit(r, b, q) ==
  IF BCmp(r, b) < 0 THEN [q |-> q, r |-> r]
  ELSE LET n   == Len(b)
           rt  == IF Len(r) > n THEN r[n + 1] * Base + r[n] ELSE r[n]
           est == rt \div (b[n] + 1)
           d   == IF est = 0 THEN 1 ELSE est
       IN  BDivDigit(BSub(r, BMulSmall(b, d)), b, q + d)

RECURSIVE BDivLimbs(_, _, _)
BDivLimbs(a, b, i) ==
  IF i > Len(a) THEN [q |-> <<>>, r |-> <<>>]
  ELSE LET p == BDivLimbs(a, b, i + 1)
           \* the higher limbs are divided first: limb i is brought down onto
           \* their remainder
           d == BDivDigit(BStrip(<<a[i]>> \o p.r), b, 0)
       IN  [q |-> <<d.q>> \o p.q, r |-> d.r]

\* quotient and remainder of a by b > 0
BDivMod(a, b) ==
  IF Len(b) = 1
  THEN LET d == BDivSmall(a, b[1]) IN [q |-> d.q, r |-> BFromInt(d.r)]
  ELSE LET d == BDivLimbs(a, b, 1) IN [q |-> BStrip(d.q), r |-> d.r]

(***************************************************************************)
(* IEEE-754 binary64 values [s, m, e] = s * m * 2^e, in canonical form: m  *)
(* is odd, or the value is zero ([s |-> 1, m |-> <<>>, e |-> 0]), so equal *)
(* values are equal records.                                               *)
(***************************************************************************)
MantBits == 53

DZero == [s |-> 1, m |-> <<>>, e |-> 0]

\* the exact value s * m * 2^e, with m of any length, in canonical form
Canon(s, m, e) ==
  IF m = <<>> THEN DZero
  ELSE IF m[1] % 2 = 1 THEN [s |-> s, m |-> m, e |-> e]
  ELSE LET tz == BTrailingZeros(m)
       IN  [s |-> s, m |-> BShr(m, tz), e |-> e + tz]

\* the same for a mantissa n that is a machine integer
CanonInt(s, n, e) ==
  IF n = 0 THEN DZero
  ELSE LET tz == IntTrailingZeros(n)
       IN  [s |-> s, m |-> BFromInt(n \div 2^tz), e |-> e + tz]

\* a mantissa of one limb: arithmetic on two of them fits a machine integer
OneLimb(x) == Len(x.m) = 1

\* s * m * 2^e rounded to MantBits significant bits, ties to even
DRound(s, m, e) ==
  IF 15 * Len(m) <= MantBits THEN Canon(s, m, e)
  ELSE
  LET len == BBitLen(m) IN
  IF len <= MantBits THEN Canon(s, m, e)
  ELSE LET sh     == len - MantBits
           q      == BShr(m, sh)
           half   == BBit(m, sh - 1) = 1
           sticky == BTrailingZeros(m) < sh - 1
           odd    == BBit(q, 0) = 1
           up     == half /\ (sticky \/ odd)
       IN  Canon(s, IF up THEN BAdd(q, <<1>>) ELSE q, e + sh)

DFromInt(n) == IF n < 0 THEN CanonInt(-1, -n, 0) ELSE CanonInt(1, n, 0)

DNeg(x) == IF x.m = <<>> THEN x ELSE [x EXCEPT !.s = -x.s]

DAbs(x) == [x EXCEPT !.s = 1]

\* the exact (unrounded) product and sum of two values
ExMul(x, y) ==
  IF OneLimb(x) /\ OneLimb(y)
  THEN [s |-> x.s * y.s, m |-> BFromInt(x.m[1] * y.m[1]), e |-> x.e + y.e]
  ELSE Canon(x.s * y.s, BMul(x.m, y.m), x.e + y.e)

ExAdd(x, y) ==
  IF x.m = <<>> THEN y
  ELSE IF y.m = <<>> THEN x
  ELSE IF OneLimb(x) /\ OneLimb(y) /\ x.e - y.e \in -15..15
  THEN LET e0 == IF x.e < y.e THEN x.e ELSE y.e
           a  == x.m[1] * 2^(x.e - e0)
           b  == y.m[1] * 2^(y.e - e0)
       IN  IF x.s = y.s THEN CanonInt(x.s, a + b, e0)
           ELSE IF a >= b THEN CanonInt(x.s, a - b, e0)
           ELSE CanonInt(y.s, b - a, e0)
  ELSE LET e0 == IF x.e < y.e THEN x.e ELSE y.e
           a  == BShl(x.m, x.e - e0)
           b  == BShl(y.m, y.e - e0)
           c  == BCmp(a, b)
       IN  IF x.s = y.s THEN Canon(x.s, BAdd(a, b), e0)
           ELSE IF c = 0 THEN DZero
           ELSE IF c > 0 THEN Canon(x.s, BSub(a, b), e0)
           ELSE Canon(y.s, BSub(b, a), e0)

ExSub(x, y) == ExAdd(x, DNeg(y))

\* -1, 0, 1 as x < y, x = y, x > y
DCmp(x, y) == LET d == ExSub(x, y) IN IF d.m = <<>> THEN 0 ELSE d.s

DLt(x, y) == DCmp(x, y) < 0
DLe(x, y) == DCmp(x, y) <= 0

\* the JavaScript operators *, +, -, / on numbers
DMul(x, y) == LET p == ExMul(x, y) IN DRound(p.s, p.m, p.e)
DAdd(x, y) == LET p == ExAdd(x, y) IN DRound(p.s, p.m, p.e)
DSub(x, y) == DAdd(x, DNeg(y))

DDiv(x, y) ==
  IF x.m = <<>> THEN DZero
  ELSE IF y.m = <<1>> THEN [s |-> x.s * y.s, m |-> x.m, e |-> x.e - y.e]
  ELSE IF OneLimb(x) /\ OneLimb(y) /\ x.m[1] % y.m[1] = 0
  THEN [s |-> x.s * y.s, m |-> <<x.m[1] \div y.m[1]>>, e |-> x.e - y.e]
  ELSE LET k == MantBits + 3 + BBitLen(y.m) - BBitLen(x.m)
           \* both sides shifted until the divisor's leading limb is full
           t == 15 - IntBitLen(y.m[Len(y.m)])
           d == BDivMod(BShl(x.m, k + t), BShl(y.m, t))
           n == BAdd(BMulSmall(d.q, 2), IF d.r = <<>> THEN <<>> ELSE <<1>>)
       IN  DRound(x.s * y.s, n, x.e - y.e - k - 1)

\* Math.floor, as an integer
DFloor(x) ==
  IF x.e >= 0 THEN x.s * BToInt(BShl(x.m, x.e))
  ELSE IF x.e <= -15 * Len(x.m) THEN (IF x.s = 1 THEN 0 ELSE -1)
  ELSE LET q == BToInt(BShr(x.m, -x.e))
       IN  IF x.s = 1 THEN q ELSE -(q + 1)

DIsInt(x) == x.e >= 0

DMin(x, y) == IF DLt(y, x) THEN y ELSE x
DMax(x, y) == IF DLt(x, y) THEN y ELSE x

(***************************************************************************)
(* core/generator.ts: PerlerBeadGenerator.generate                         *)
(***************************************************************************)
Algorithms == {"nearest", "average", "gradient_enhanced"}

Min(a, b) == IF a < b THEN a ELSE b
Max(a, b) == IF a > b THEN a ELSE b

\* a variant that lets every value through: C16 depends on the clamp of
\* lines 54-56 and 91-93
ClampByteOpen(v) == v

\* Math.min(255, Math.max(0, v)) on an integer v
ClampByte(v) == Min(255, Max(0, v))

\* a variant without the clamp of lines 161-165: C5 depends on the clamp
DClampByteOpen(v) == v

\* Math.min(255, Math.max(0, v)) on a number v
DClampByte(v) == DMin(DFromInt(255), DMax(DZero, v))

\* step 1, the centre crop: {cropX, cropY, cropW, cropH}
CropRect(imgW, imgH, targetW, targetH) ==
  LET targetRatio == DDiv(DFromInt(targetW), DFromInt(targetH))
      imgRatio    == DDiv(DFromInt(imgW), DFromInt(imgH))
  IN  IF DLt(targetRatio, imgRatio)
      THEN LET cropW == DMul(DFromInt(imgH), targetRatio)
           IN  [cropX |-> DDiv(DSub(DFromInt(imgW), cropW), DFromInt(2)),
                cropY |-> DZero,
                cropW |-> cropW,
                cropH |-> DFromInt(imgH)]
      ELSE LET cropH == DDiv(DFromInt(imgW), targetRatio)
           IN  [cropX |-> DZero,
                cropY |-> DDiv(DSub(DFromInt(imgH), cropH), DFromInt(2)),
                cropW |-> DFromInt(imgW),
                cropH |-> cropH]

\* a variant that darkens where the code brightens: C7 depends on the sign
bOffsetOfInverted(level) == level * (-15)

bOffsetOf(level) == level * 15

\* The source pixel that destination pixel d (of dLen) of a drawImage call
\* shows: the one under the centre of the destination pixel, the source
\* rectangle starting at s0 with length sLen, clipped to the image.
SourceIndex(s0, sLen, d, dLen, srcLen) ==
  LET centre == DDiv(DFromInt(2 * d + 1), DFromInt(2))
      pos    == DAdd(s0, DDiv(DMul(centre, sLen), DFromInt(dLen)))
  IN  Min(srcLen - 1, Max(0, DFloor(pos)))

\* ctx.drawImage(image, sx, sy, sw, sh, 0, 0, dw, dh) followed by
\* ctx.getImageData(0, 0, dw, dh): rows 1..dh of pixels 1..dw, each <<r, g, b>>
DrawImage(image, crop, dw, dh) ==
  LET xs == [x \in 1..dw |->
               SourceIndex(crop.cropX, crop.cropW, x - 1, dw, image.width)]
      ys == [y \in 1..dh |->
               SourceIndex(crop.cropY, crop.cropH, y - 1, dh, image.height)]
  IN  [y \in 1..dh |-> [x \in 1..dw |-> image.data[ys[y] + 1][xs[x] + 1]]]

\* the nearest branch, lines 47-57: the colour of cell (r, c) handed to the
\* palette resolver
NearestColor(imageData, r, c, bOffset) ==
  LET px == imageData[r][c]
  IN  [r |-> DFromInt(ClampByte(px[1] + bOffset)),
       g |-> DFromInt(ClampByte(px[2] + bOffset)),
       b |-> DFromInt(ClampByte(px[3] + bOffset))]

\* Math.floor(i * block) for a block size in source pixels
BlockEdge(i, block) == DFloor(DMul(DFromInt(i), block))

RECURSIVE SumRow(_, _, _, _, _)
\* the inner loop, lines 89-95, over x in startX..endX-1 of row y:
\* channel sums and pixel count
SumRow(origData, y, x, endX, bOffset) ==
  IF x >= endX THEN [r |-> 0, g |-> 0, b |-> 0, count |-> 0]
  ELSE LET rest == SumRow(origData, y, x + 1, endX, bOffset)
           px   == origData[y + 1][x + 1]
       IN  [r |-> ClampByte(px[1] + bOffset) + rest.r,
            g |-> ClampByte(px[2] + bOffset) + rest.g,
            b |-> ClampByte(px[3] + bOffset) + rest.b,
            count |-> 1 + rest.count]

RECURSIVE SumBlock(_, _, _, _, _, _)
\* the loop of lines 88-96 over y in startY..endY-1
SumBlock(origData, y, endY, startX, endX, bOffset) ==
  IF y >= endY THEN [r |-> 0, g |-> 0, b |-> 0, count |-> 0]
  ELSE LET rest == SumBlock(origData, y + 1, endY, startX, endX, bOffset)
           row  == SumRow(origData, y, startX, endX, bOffset)
       IN  [r |-> row.r + rest.r, g |-> row.g + rest.g, b |-> row.b + rest.b,
            count |-> row.count + rest.count]

\* a variant whose blocks reach one block further right and down: C3 depends
\* on the blocks not overlapping
BlockOfBleed(r, c, cw, ch, targetW, targetH) ==
  LET blockW == DDiv(DFromInt(cw), DFromInt(targetW))
      blockH == DDiv(DFromInt(ch), DFromInt(targetH))
  IN  [startY |-> BlockEdge(r, blockH),
       endY   |-> Min(BlockEdge(r + 2, blockH), ch),
       startX |-> BlockEdge(c, blockW),
       endX   |-> Min(BlockEdge(c + 2, blockW), cw)]

\* the block of cell (r, c), 0-based, lines 83-86
BlockOf(r, c, cw, ch, targetW, targetH) ==
  LET blockW == DDiv(DFromInt(cw), DFromInt(targetW))
      blockH == DDiv(DFromInt(ch), DFromInt(targetH))
  IN  [startY |-> BlockEdge(r, blockH),
       endY   |-> Min(BlockEdge(r + 1, blockH), ch),
       startX |-> BlockEdge(c, blockW),
       endX   |-> Min(BlockEdge(c + 1, blockW), cw)]

\* a variant in which an empty block counts as one pixel of value 0 that is
\* brightened like the others: C14 depends on the sums staying 0
RawCellImplicitPixel(origData, blk, bOffset) ==
  LET sum   == SumBlock(origData, blk.startY, blk.endY, blk.startX, blk.endX, bOffset)
      empty == sum.count = 0
      count == IF empty THEN 1 ELSE sum.count
  IN  [r |-> DDiv(DFromInt(IF empty THEN ClampByte(bOffset) ELSE sum.r), DFromInt(count)),
       g |-> DDiv(DFromInt(IF empty THEN ClampByte(bOffset) ELSE sum.g), DFromInt(count)),
       b |-> DDiv(DFromInt(IF empty THEN ClampByte(bOffset) ELSE sum.b), DFromInt(count))]

\* lines 82-99: the raw colour of a block and the number of pixels it summed
RawCell(origData, blk, bOffset) ==
  LET sum   == SumBlock(origData, blk.startY, blk.endY, blk.startX, blk.endX, bOffset)
      count == IF sum.count = 0 THEN 1 ELSE sum.count
  IN  [r |-> DDiv(DFromInt(sum.r), DFromInt(count)),
       g |-> DDiv(DFromInt(sum.g), DFromInt(count)),
       b |-> DDiv(DFromInt(sum.b), DFromInt(count))]

\* lines 74-102: the raw grid, rows 1..targetH of cells 1..targetW
RawGrid(origData, cw, ch, targetW, targetH, bOffset) ==
  [r \in 1..targetH |-> [c \in 1..targetW |->
     RawCell(origData, BlockOf(r - 1, c - 1, cw, ch, targetW, targetH), bOffset)]]

dirs == << <<-1, 0>>, <<1, 0>>, <<0, -1>>, <<0, 1>> >>

\* line 118: the neighbours of cell (r, c) (1-based) that exist, in dirs order
Neighbors(r, c, targetW, targetH) ==
  SelectSeq([i \in 1..4 |-> <<r + dirs[i][1], c + dirs[i][2]>>],
            LAMBDA n : n[1] >= 1 /\ n[1] <= targetH /\ n[2] >= 1 /\ n[2] <= targetW)

\* lines 120-122: |dr| + |dg| + |db|
ColorDiff(center, neighbor) ==
  DAdd(DAdd(DAbs(DSub(center.r, neighbor.r)), DAbs(DSub(center.g, neighbor.g))),
       DAbs(DSub(center.b, neighbor.b)))

RECURSIVE DiffSum(_, _, _, _)
\* lines 116-125: diffSum after the first k neighbours
DiffSum(rawGrid, center, nbs, k) ==
  IF k = 0 THEN DZero
  ELSE DAdd(DiffSum(rawGrid, center, nbs, k - 1),
            ColorDiff(center, rawGrid[nbs[k][1]][nbs[k][2]]))

\* line 127
AvgDiff(rawGrid, r, c, targetW, targetH) ==
  LET nbs == Neighbors(r, c, targetW, targetH)
  IN  IF Len(nbs) > 0
      THEN DDiv(DiffSum(rawGrid, rawGrid[r][c], nbs, Len(nbs)), DFromInt(Len(nbs)))
      ELSE DZero

weightCenter == DDiv(DFromInt(22), DFromInt(10))
weightEdge == DNeg(DDiv(DFromInt(3), DFromInt(10)))
FlatThreshold == 15

RECURSIVE KernelSum(_, _, _)
\* lines 140-153 on one channel: center * weightCenter, then the first k
\* neighbour values times weightEdge added in turn
KernelSum(centerV, nbV, k) ==
  IF k = 0 THEN DMul(centerV, weightCenter)
  ELSE DAdd(KernelSum(centerV, nbV, k - 1), DMul(nbV[k], weightEdge))

\* a variant without the compensation of lines 155-159: C15 depends on the
\* missing neighbours being replaced by the center
SharpenUncompensated(centerV, nbV) == KernelSum(centerV, nbV, Len(nbV))

\* lines 140-159 on one channel, before the clamp
Sharpen(centerV, nbV) ==
  LET missingEdges == 4 - Len(nbV)
  IN  DAdd(KernelSum(centerV, nbV, Len(nbV)),
           DMul(centerV, DMul(DFromInt(missingEdges), weightEdge)))

\* a variant that sharpens every cell: C4 depends on the test of line 130
EnhanceCellAlways(rawGrid, r, c, targetW, targetH) ==
  LET center == rawGrid[r][c]
      nbs    == Neighbors(r, c, targetW, targetH)
  IN  [r |-> DClampByte(Sharpen(center.r,
               [i \in 1..Len(nbs) |-> rawGrid[nbs[i][1]][nbs[i][2]].r])),
       g |-> DClampByte(Sharpen(center.g,
               [i \in 1..Len(nbs) |-> rawGrid[nbs[i][1]][nbs[i][2]].g])),
       b |-> DClampByte(Sharpen(center.b,
               [i \in 1..Len(nbs) |-> rawGrid[nbs[i][1]][nbs[i][2]].b]))]

\* lines 109-166: the enhanced colour of cell (r, c)
EnhanceCell(rawGrid, r, c, targetW, targetH) ==
  LET center == rawGrid[r][c]
      nbs    == Neighbors(r, c, targetW, targetH)
  IN  IF DLt(AvgDiff(rawGrid, r, c, targetW, targetH), DFromInt(FlatThreshold))
      THEN center
      ELSE [r |-> DClampByte(Sharpen(center.r,
                     [i \in 1..Len(nbs) |-> rawGrid[nbs[i][1]][nbs[i][2]].r])),
            g |-> DClampByte(Sharpen(center.g,
                     [i \in 1..Len(nbs) |-> rawGrid[nbs[i][1]][nbs[i][2]].g])),
            b |-> DClampByte(Sharpen(center.b,
                     [i \in 1..Len(nbs) |-> rawGrid[nbs[i][1]][nbs[i][2]].b]))]

RECURSIVE EnhanceInPlace(_, _, _, _)
\* the first k cells of g, in row-major order, enhanced one after the other
\* inside g itself
EnhanceInPlace(g, targetW, targetH, k) ==
  IF k = 0 THEN g
  ELSE LET prev == EnhanceInPlace(g, targetW, targetH, k - 1)
           r    == ((k - 1) \div targetW) + 1
           c    == ((k - 1) % targetW) + 1
       IN  [prev EXCEPT ![r][c] = EnhanceCell(prev, r, c, targetW, targetH)]

\* a variant that writes each enhanced cell back into the grid it reads:
\* C17 depends on the pass reading rawGrid and writing enhancedGrid
EnhancedGridInPlace(rawGrid, targetW, targetH) ==
  EnhanceInPlace(rawGrid, targetW, targetH, targetW * targetH)

\* lines 105-169
EnhancedGrid(rawGrid, targetW, targetH) ==
  [r \in 1..targetH |-> [c \in 1..targetW |->
     EnhanceCell(rawGrid, r, c, targetW, targetH)]]

(***************************************************************************)
(* core/color_utils.ts is not part of the sources at hand.  Its resolver   *)
(* is modelled as the design describes it: a pure function from an RGB     *)
(* triple and a palette key to a palette entry {code, rgb}.  The metric    *)
(* chosen here (squared distance on the integer parts, the first entry     *)
(* winning ties) stands for whatever metric the catalogue uses.            *)
(***************************************************************************)
PaletteKeys == {"mard"}

PaletteOf(paletteKey) ==
  << [code |-> "H7", rgb |-> <<0, 0, 0>>],
     [code |-> "H1", rgb |-> <<255, 255, 255>>],
     [code |-> "F5", rgb |-> <<200, 40, 40>>],
     [code |-> "C8", rgb |-> <<60, 120, 200>>] >>

ColorDistance(r, g, b, rgb) ==
  (r - rgb[1]) * (r - rgb[1]) + (g - rgb[2]) * (g - rgb[2])
    + (b - rgb[3]) * (b - rgb[3])

RECURSIVE ClosestFrom(_, _, _, _, _)
ClosestFrom(pal, r, g, b, i) ==
  IF i = Len(pal) THEN pal[i]
  ELSE LET best == ClosestFrom(pal, r, g, b, i + 1)
       IN  IF ColorDistance(r, g, b, pal[i].rgb) <= ColorDistance(r, g, b, best.rgb)
           THEN pal[i] ELSE best

findClosestColor(r, g, b, paletteKey) ==
  ClosestFrom(PaletteOf(paletteKey), DFloor(r), DFloor(g), DFloor(b), 1)

\* a variant that fills the grid column by column: C18 depends on the entry
\* at (r, c) being the result for cell (r, c)
ResolveGridTransposed(colors, targetW, targetH, paletteKey) ==
  [r \in 1..targetH |-> [c \in 1..targetW |->
     LET k  == (c - 1) * targetH + (r - 1)
         rr == (k \div targetW) + 1
         cc == (k % targetW) + 1
     IN  findClosestColor(colors[rr][cc].r, colors[rr][cc].g, colors[rr][cc].b,
                          paletteKey)]]

\* lines 171-188 (and 47-61): the rows pushed to grid, the palette entry of
\* every cell
ResolveGrid(colors, targetW, targetH, paletteKey) ==
  [r \in 1..targetH |-> [c \in 1..targetW |->
     findClosestColor(colors[r][c].r, colors[r][c].g, colors[r][c].b, paletteKey)]]

(***************************************************************************)
(* core/draw_utils.ts: drawPattern                                         *)
(***************************************************************************)
cellSize == 40
margin == 60
statSpacingX == 20
statSpacingY == 20

\* a variant that enters a new code without counting the cell: C19 depends
\* on the increment of line 24 following the insertion of line 22
StatsAddUncounted(statsMap, cell) ==
  IF \E i \in 1..Len(statsMap) : statsMap[i].color.code = cell.code
  THEN [i \in 1..Len(statsMap) |->
          IF statsMap[i].color.code = cell.code
          THEN [statsMap[i] EXCEPT !.count = @ + 1]
          ELSE statsMap[i]]
  ELSE Append(statsMap, [color |-> cell, count |-> 0])

\* lines 21-24: the Map after one more cell; a Map keeps insertion order
StatsAdd(statsMap, cell) ==
  IF \E i \in 1..Len(statsMap) : statsMap[i].color.code = cell.code
  THEN [i \in 1..Len(statsMap) |->
          IF statsMap[i].color.code = cell.code
          THEN [statsMap[i] EXCEPT !.count = @ + 1]
          ELSE statsMap[i]]
  ELSE Append(statsMap, [color |-> cell, count |-> 1])

RECURSIVE StatsScan(_, _, _)
\* lines 17-26: the Map after the first k cells of the row-major scan
StatsScan(grid, cols, k) ==
  IF k = 0 THEN <<>>
  ELSE StatsAdd(StatsScan(grid, cols, k - 1),
                grid[((k - 1) \div cols) + 1][((k - 1) % cols) + 1])

\* the comparator of line 27: negative when a sorts before b
CompareStats(a, b) == b.count - a.count

\* a variant that puts x before the elements it ties with (a sort that is not
\* stable): C6 depends on the stability
InsertSortedUnstable(s, x) ==
  LET before == {i \in 1..Len(s) : CompareStats(x, s[i]) <= 0}
      at     == IF before = {} THEN Len(s) + 1
                ELSE CHOOSE i \in before : \A j \in before : i <= j
  IN  SubSeq(s, 1, at - 1) \o <<x>> \o SubSeq(s, at, Len(s))

\* x put into the sorted sequence s behind every element it does not precede
InsertSorted(s, x) ==
  LET before == {i \in 1..Len(s) : CompareStats(x, s[i]) < 0}
      at     == IF before = {} THEN Len(s) + 1
                ELSE CHOOSE i \in before : \A j \in before : i <= j
  IN  SubSeq(s, 1, at - 1) \o <<x>> \o SubSeq(s, at, Len(s))

RECURSIVE SortStats(_, _)
\* Array.prototype.sort is stable: the first k elements of s, sorted
SortStats(s, k) ==
  IF k = 0 THEN <<>>
  ELSE InsertSorted(SortStats(s, k - 1), s[k])

\* lines 13-27
StatsOf(grid) ==
  LET rows == Len(grid)
      cols == Len(grid[1])
      statsMap == StatsScan(grid, cols, rows * cols)
  IN  SortStats(statsMap, Len(statsMap))

CeilDiv(a, b) == (a + b - 1) \div b

\* lines 29-48: the layout, and the size the canvas is given
Layout(rows, cols, nStats) ==
  LET gridWidth  == cols * cellSize
      gridHeight == rows * cellSize
      statItemWidth  == Max(120, cellSize * 3)
      statItemHeight == cellSize
      maxStatsPerRow == Max(1, gridWidth \div (statItemWidth + statSpacingX))
      statsRows      == CeilDiv(nStats, maxStatsPerRow)
      statsSectionHeight == statsRows * (statItemHeight + statSpacingY)
      width  == Max(gridWidth + margin * 2, statItemWidth + margin * 2)
      height == DAdd(DAdd(DAdd(DFromInt(gridHeight),
                               DMul(DFromInt(margin), DDiv(DFromInt(5), DFromInt(2)))),
                          DFromInt(statsSectionHeight)),
                     DFromInt(margin))
  IN  [gridWidth |-> gridWidth, gridHeight |-> gridHeight,
       statItemWidth |-> statItemWidth, maxStatsPerRow |-> maxStatsPerRow,
       statsRows |-> statsRows, width |-> width, height |-> height,
       offsetX |-> DDiv(DFromInt(width - gridWidth), DFromInt(2)),
       offsetY |-> margin,
       canvasWidth |-> width, canvasHeight |-> DFloor(height)]

\* line 4: the literals 0.299, 0.587 and 0.114 as binary64 numbers
lumWeights ==
  [k \in 1..3 |-> DDiv(DFromInt(<<299, 587, 114>>[k]), DFromInt(1000))]

RECURSIVE LuminanceUpTo(_, _)
\* the first k terms of the sum of line 4, added from the left
LuminanceUpTo(rgb, k) ==
  LET term == DMul(lumWeights[k], DFromInt(rgb[k]))
  IN  IF k = 1 THEN term ELSE DAdd(LuminanceUpTo(rgb, k - 1), term)

\* lines 3-5: 0.299 * r + 0.587 * g + 0.114 * b
getLuminance(r, g, b) == LuminanceUpTo(<<r, g, b>>, 3)

\* a variant that also draws dark text at luminance 128: C20 depends on the
\* comparison being strict
TextColorInclusive(rgb) ==
  IF DLe(DFromInt(128), getLuminance(rgb[1], rgb[2], rgb[3]))
  THEN "#111827" ELSE "#ffffff"

\* lines 75-76 and 147-148: the fillStyle of a code label
TextColor(rgb) ==
  IF DLt(DFromInt(128), getLuminance(rgb[1], rgb[2], rgb[3]))
  THEN "#111827" ELSE "#ffffff"

\* n / 2 for an integer n, which binary64 holds exactly
DHalf(n) == IF n < 0 THEN CanonInt(-1, -n, -1) ELSE CanonInt(1, n, -1)

\* a variant that puts every legend item on the first row: C21 depends on
\* the wrap of lines 129-130
LegendItemUnwrapped(i, layout, nStats) ==
  LET actualStatsWidth == Min(nStats, layout.maxStatsPerRow)
                            * (layout.statItemWidth + statSpacingX) - statSpacingX
  IN  [row |-> 0, col |-> i,
       x |-> DHalf(layout.width - actualStatsWidth
                     + 2 * i * (layout.statItemWidth + statSpacingX)),
       y |-> DHalf(2 * (layout.offsetY + layout.gridHeight) + 3 * margin)]

\* lines 126-137: the slot of legend item i (0-based) and the top left
\* corner of its colour block, which is cellSize wide and high (line 141).
\* x = (width - actualStatsWidth) / 2 + col * (statItemWidth + statSpacingX)
\* and y = offsetY + gridHeight + margin * 1.5 + row * (statItemHeight +
\* statSpacingY) are sums of integers and halves of integers, on which the
\* binary64 operations are exact; they are computed here in half pixels.
LegendItem(i, layout, nStats) ==
  LET row == i \div layout.maxStatsPerRow
      col == i % layout.maxStatsPerRow
      actualStatsWidth == Min(nStats, layout.maxStatsPerRow)
                            * (layout.statItemWidth + statSpacingX) - statSpacingX
  IN  [row |-> row, col |-> col,
       x |-> DHalf(layout.width - actualStatsWidth
                     + 2 * col * (layout.statItemWidth + statSpacingX)),
       y |-> DHalf(2 * (layout.offsetY + layout.gridHeight) + 3 * margin
                     + 2 * row * (cellSize + statSpacingY))]

\* drawPattern(ctx, grid): what the chart shows; cellText and statText are
\* the colours of the code labels in the grid and in the legend.  The colour
\* of a label is computed from the rgb of the entry under it alone (lines
\* 75-76 and 147-148), here once for every entry the grid shows.  The colour
\* block of legend item i is at LegendItem(i, layout, Len(stats)).
drawPattern(grid) ==
  LET stats  == StatsOf(grid)
      shown  == {grid[r][c] : r \in 1..Len(grid), c \in 1..Len(grid[1])}
      labels == {<<entry, TextColor(entry.rgb)>> : entry \in shown}
      LabelOn(entry) == (CHOOSE l \in labels : l[1] = entry)[2]
  IN  [stats  |-> stats,
       layout |-> Layout(Len(grid), Len(grid[1]), Len(stats)),
       cells  |-> grid,
       cellText |-> [r \in 1..Len(grid) |-> [c \in 1..Len(grid[1]) |->
                       LabelOn(grid[r][c])]],
       statText |-> [i \in 1..Len(stats) |-> LabelOn(stats[i].color)]]

(***************************************************************************)
(* State.  One call of generate runs a stage at a time: call holds its     *)
(* arguments, ctxOk what the browser answers to its three getContext('2d') *)
(* calls (FALSE: null), pc its position in the function body, the others   *)
(* its locals.  earlier remembers a call that has returned.  The remaining *)
(* variables are the state of the App component.                          *)
(***************************************************************************)
VARIABLES
  call,          \* [imageSource, targetW, targetH, algorithm, paletteKey, brightness]
  ctxOk,         \* [nearest, orig, out]
  pc,            \* "plan", "nearest", "nearestGrid", "average", "blocks", "enhance",
                 \* "resolve", "render", "returned", "thrown"; "none" before any call
  crop,          \* cropX, cropY, cropW, cropH
  pixels,        \* imageData (nearest) or origData (average)
  rawGrid,
  enhancedGrid,
  colors,        \* the colour of each cell as handed to findClosestColor
  grid,          \* ColorInfo[][]
  chart,         \* what drawPattern drew on the output canvas
  earlier,       \* [call, colors, grid, chart] of a call that returned
  image,         \* useState: the uploaded file as a data URL, or None
  width,
  height,
  algorithm,
  palette,
  brightness,
  isGenerating,
  resultImage,   \* the raster of a call, or None
  task,          \* the handleGenerate invocation in flight, or None
  download       \* the link of the last download [href, name], or None

genVars == <<call, ctxOk, pc, crop, pixels, rawGrid, enhancedGrid, colors, grid, chart>>

appVars == <<image, width, height, algorithm, palette, brightness, isGenerating,
             resultImage, task, download>>

vars == <<genVars, earlier, appVars>>

None == <<>>

\* App.tsx lines 18-26: the useState defaults
AppMounted ==
  /\ image = None
  /\ width = 40
  /\ height = 40
  /\ algorithm = "average"
  /\ palette = "mard"
  /\ brightness = 0
  /\ isGenerating = FALSE
  /\ resultImage = None
  /\ task = None
  /\ download = None

\* no call of generate has been made
NoCall ==
  /\ call = None
  /\ ctxOk = None
  /\ pc = "none"
  /\ crop = None
  /\ pixels = None
  /\ rawGrid = None
  /\ enhancedGrid = None
  /\ colors = None
  /\ grid = None
  /\ chart = None

\* generate has just been entered with the arguments args
Entered(args, ctx) ==
  /\ call = args
  /\ ctxOk = ctx
  /\ pc = "plan"
  /\ crop = None
  /\ pixels = None
  /\ rawGrid = None
  /\ enhancedGrid = None
  /\ colors = None
  /\ grid = None
  /\ chart = None

\* a variant in which grid outlives the call (an array shared by all calls):
\* C8 depends on the locals being fresh
EnterSharedGrid(args, ctx) ==
  /\ call' = args
  /\ ctxOk' = ctx
  /\ pc' = "plan"
  /\ crop' = None
  /\ pixels' = None
  /\ rawGrid' = None
  /\ enhancedGrid' = None
  /\ colors' = None
  /\ grid' = grid
  /\ chart' = None

\* the step that enters generate: line 34, grid is a new empty array
Enter(args, ctx) ==
  /\ call' = args
  /\ ctxOk' = ctx
  /\ pc' = "plan"
  /\ crop' = None
  /\ pixels' = None
  /\ rawGrid' = None
  /\ enhancedGrid' = None
  /\ colors' = None
  /\ grid' = None
  /\ chart' = None

cwOf(c) == DFloor(c.cropW)
chOf(c) == DFloor(c.cropH)

\* line 42: the nearest canvas gives no context
NearestThrows(ctx) == ~ctx.nearest

\* lines 69-72: origCtx is null (drawImage on null), or the rectangle read by
\* getImageData has no pixels (IndexSizeError)
AverageThrows(ctx, c) == ~ctx.orig \/ cwOf(c) = 0 \/ chOf(c) = 0

\* a variant in which a canvas without context still gives a raster: C10
\* depends on the call throwing
RenderNeverThrows(ctx) == FALSE

\* lines 193-194: outCtx is null and drawPattern reads ctx.canvas
RenderThrows(ctx) == ~ctx.out

\* lines 16-35
Plan ==
  /\ pc = "plan"
  /\ crop' = CropRect(call.imageSource.width, call.imageSource.height,
                      call.targetW, call.targetH)
  /\ pc' = IF call.algorithm = "nearest" THEN "nearest" ELSE "average"
  /\ UNCHANGED <<call, ctxOk, pixels, rawGrid, enhancedGrid, colors, grid, chart>>
  /\ UNCHANGED <<earlier, appVars>>

\* lines 38-45
NearestSample ==
  /\ pc = "nearest"
  /\ IF NearestThrows(ctxOk)
     THEN /\ pc' = "thrown"
          /\ UNCHANGED pixels
     ELSE /\ pixels' = DrawImage(call.imageSource, crop, call.targetW, call.targetH)
          /\ pc' = "nearestGrid"
  /\ UNCHANGED <<call, ctxOk, crop, rawGrid, enhancedGrid, colors, grid, chart>>
  /\ UNCHANGED <<earlier, appVars>>

\* lines 47-62
NearestGrid ==
  /\ pc = "nearestGrid"
  /\ colors' = [r \in 1..call.targetH |-> [c \in 1..call.targetW |->
                  NearestColor(pixels, r, c, bOffsetOf(call.brightness))]]
  /\ grid' = grid \o ResolveGrid(colors', call.targetW, call.targetH, call.paletteKey)
  /\ pc' = "render"
  /\ UNCHANGED <<call, ctxOk, crop, pixels, rawGrid, enhancedGrid, chart>>
  /\ UNCHANGED <<earlier, appVars>>

\* lines 65-72
AverageSample ==
  /\ pc = "average"
  /\ IF AverageThrows(ctxOk, crop)
     THEN /\ pc' = "thrown"
          /\ UNCHANGED pixels
     ELSE /\ pixels' = DrawImage(call.imageSource, crop, cwOf(crop), chOf(crop))
          /\ pc' = "blocks"
  /\ UNCHANGED <<call, ctxOk, crop, rawGrid, enhancedGrid, colors, grid, chart>>
  /\ UNCHANGED <<earlier, appVars>>

\* lines 74-102
AverageBlocks ==
  /\ pc = "blocks"
  /\ rawGrid' = RawGrid(pixels, cwOf(crop), chOf(crop), call.targetW, call.targetH,
                        bOffsetOf(call.brightness))
  /\ pc' = IF call.algorithm = "gradient_enhanced" THEN "enhance" ELSE "resolve"
  /\ colors' = IF call.algorithm = "gradient_enhanced" THEN colors ELSE rawGrid'
  /\ UNCHANGED <<call, ctxOk, crop, pixels, enhancedGrid, grid, chart>>
  /\ UNCHANGED <<earlier, appVars>>

\* lines 104-169
Enhance ==
  /\ pc = "enhance"
  /\ enhancedGrid' = EnhancedGrid(rawGrid, call.targetW, call.targetH)
  /\ colors' = enhancedGrid'
  /\ pc' = "resolve"
  /\ UNCHANGED <<call, ctxOk, crop, pixels, rawGrid, grid, chart>>
  /\ UNCHANGED <<earlier, appVars>>

\* lines 171-188
Resolve ==
  /\ pc = "resolve"
  /\ grid' = grid \o ResolveGrid(colors, call.targetW, call.targetH, call.paletteKey)
  /\ pc' = "render"
  /\ UNCHANGED <<call, ctxOk, crop, pixels, rawGrid, enhancedGrid, colors, chart>>
  /\ UNCHANGED <<earlier, appVars>>

\* lines 191-196
Render ==
  /\ pc = "render"
  /\ IF RenderThrows(ctxOk)
     THEN /\ pc' = "thrown"
          /\ UNCHANGED chart
     ELSE /\ chart' = drawPattern(grid)
          /\ pc' = "returned"
  /\ UNCHANGED <<call, ctxOk, crop, pixels, rawGrid, enhancedGrid, colors, grid>>
  /\ UNCHANGED <<earlier, appVars>>

\* what a call that returned leaves to compare a later call with
Finished == [call |-> call, colors |-> colors, grid |-> grid, chart |-> chart]

\* generate is called again once the call before has ended; remember says
\* whether the call that ended is the one kept in earlier
CallAgain(args, remember) ==
  /\ pc \in {"returned", "thrown"}
  /\ remember => pc = "returned"
  /\ Enter(args, ctxOk)
  /\ earlier' = IF remember THEN Finished ELSE earlier
  /\ UNCHANGED appVars

\* App.tsx lines 249-251: the slider's range
MinBrightness == -2
MaxBrightness == 2

\* the same picture is generated again one brightness level higher
Brighten ==
  /\ pc = "returned"
  /\ call.brightness < MaxBrightness
  /\ CallAgain([call EXCEPT !.brightness = @ + 1], TRUE)

(***************************************************************************)
(* Source images                                                           *)
(***************************************************************************)
\* an image of one colour
Uniform(w, h, colour) ==
  [width |-> w, height |-> h, data |-> [y \in 1..h |-> [x \in 1..w |-> colour]]]

\* columns 1..k in colour a, the others in colour b
Split(w, h, k, a, b) ==
  [width |-> w, height |-> h,
   data |-> [y \in 1..h |-> [x \in 1..w |-> IF x <= k THEN a ELSE b]]]

\* the middle pixel in colour a, the others in colour b
Dot(w, h, a, b) ==
  [width |-> w, height |-> h,
   data |-> [y \in 1..h |-> [x \in 1..w |->
               IF x = (w + 1) \div 2 /\ y = (h + 1) \div 2 THEN a ELSE b]]]

Red == <<255, 0, 0>>
Green == <<0, 255, 0>>
Blue == <<0, 0, 255>>
White == <<255, 255, 255>>
Black == <<0, 0, 0>>

\* quadrants red, green / blue, white
Quad(w, h) ==
  [width |-> w, height |-> h,
   data |-> [y \in 1..h |-> [x \in 1..w |->
               IF 2 * y <= h + 1
               THEN (IF 2 * x <= w + 1 THEN Red ELSE Green)
               ELSE (IF 2 * x <= w + 1 THEN Blue ELSE White)]]]

AllCtx == [nearest |-> TRUE, orig |-> TRUE, out |-> TRUE]

\* the colours of the two halves of a split picture
Pairs ==
  { << <<100, 100, 100>>, <<115, 115, 115>> >>,
    << White, Black >>,
    << <<200, 40, 40>>, <<60, 120, 200>> >> }

\* the pictures of w x h pixels that are generated
Pictures(w, h) ==
  {Uniform(w, h, White), Uniform(w, h, <<200, 40, 40>>), Quad(w, h),
   Dot(w, h, <<115, 16, 0>>, <<128, 0, 0>>)}
  \cup {Split(w, h, k, p[1], p[2]) : k \in 1..(w - 1), p \in Pairs}

Args(picture, tw, th, alg, level) ==
  [imageSource |-> picture, targetW |-> tw, targetH |-> th, algorithm |-> alg,
   paletteKey |-> "mard", brightness |-> level]

(***************************************************************************)
(* SpecCrop: the centre crop of every source size for every target size,   *)
(* and the canvas the average branch reads it into                         *)
(***************************************************************************)
MaxSide == 9

InitCrop ==
  /\ \E w \in 1..MaxSide, h \in 1..MaxSide, tw \in 1..MaxSide, th \in 1..MaxSide :
       Entered(Args(Uniform(w, h, White), tw, th, "average", 0), AllCtx)
  /\ earlier = None
  /\ AppMounted

NextCrop ==
  \/ Plan
  \/ AverageSample

SpecCrop == InitCrop /\ [][NextCrop]_vars

(***************************************************************************)
(* SpecGen: every picture generated with every algorithm at every target   *)
(* size, at each brightness level in turn                                  *)
(***************************************************************************)
MaxSrc == 3
MaxTarget == 3

InitGen ==
  /\ \E w \in 1..MaxSrc, h \in 1..MaxSrc, tw \in 1..MaxTarget, th \in 1..MaxTarget,
        alg \in Algorithms :
       \E picture \in Pictures(w, h) :
         Entered(Args(picture, tw, th, alg, MinBrightness), AllCtx)
  /\ earlier = None
  /\ AppMounted

NextGen ==
  \/ Plan
  \/ NearestSample
  \/ NearestGrid
  \/ AverageSample
  \/ AverageBlocks
  \/ Enhance
  \/ Resolve
  \/ Render
  \/ Brighten

SpecGen == InitGen /\ [][NextGen]_vars

(***************************************************************************)
(* SpecDraw: drawPattern on every grid of one or two rows of palette       *)
(* entries, and on the grid of the design's legend example                 *)
(***************************************************************************)
MaxCols == 3
MaxCodes == 3

Entries == {PaletteOf("mard")[i] : i \in 1..MaxCodes}

\* codes A, C, B first seen in this order, with counts 5, 3, 3
ExampleGrid ==
  LET A == PaletteOf("mard")[1]
      B == PaletteOf("mard")[2]
      C == PaletteOf("mard")[3]
  IN  << <<A, C, B, A, A, C, B, A, C, B, A>> >>

InitDraw ==
  /\ \/ \E rows \in 1..2, cols \in 1..MaxCols :
          grid \in [1..rows -> [1..cols -> Entries]]
     \/ grid = ExampleGrid
  /\ call = None
  /\ ctxOk = AllCtx
  /\ pc = "render"
  /\ crop = None
  /\ pixels = None
  /\ rawGrid = None
  /\ enhancedGrid = None
  /\ colors = None
  /\ chart = None
  /\ earlier = None
  /\ AppMounted

NextDraw == Render

SpecDraw == InitDraw /\ [][NextDraw]_vars

(***************************************************************************)
(* SpecCalls: generate called again and again with any arguments of a      *)
(* small family, one of the calls that returned being remembered           *)
(***************************************************************************)
MaxCallSide == 2

CallLevels == {0, 1}

CallFamily ==
  {Args(picture, tw, th, alg, level) :
     picture \in {Quad(2, 2), Split(2, 1, 1, White, Black)},
     tw \in 1..MaxCallSide, th \in 1..MaxCallSide,
     alg \in Algorithms, level \in CallLevels}

InitCalls ==
  /\ \E args \in CallFamily : Entered(args, AllCtx)
  /\ earlier = None
  /\ AppMounted

AnotherCall ==
  \E args \in CallFamily, remember \in BOOLEAN : CallAgain(args, remember)

NextCalls ==
  \/ Plan
  \/ NearestSample
  \/ NearestGrid
  \/ AverageSample
  \/ AverageBlocks
  \/ Enhance
  \/ Resolve
  \/ Render
  \/ AnotherCall

SpecCalls == InitCalls /\ [][NextCalls]_vars

(***************************************************************************)
(* App.tsx: the component's handlers                                       *)
(***************************************************************************)
\* the files the user may pick; corrupt reads as a data URL but does not
\* decode as an image
Photo == [name |-> "photo", width |-> 2, height |-> 1, decodable |-> TRUE]
Corrupt == [name |-> "corrupt", width |-> 0, height |-> 0, decodable |-> FALSE]

Files == {Photo, Corrupt}

CtxStates == [nearest : BOOLEAN, orig : BOOLEAN, out : BOOLEAN]

Digits == <<"0", "1", "2", "3", "4", "5", "6", "7", "8", "9">>

IsDigit(ch) == \E d \in 1..10 : Digits[d] = ch

DigitValue(ch) == (CHOOSE d \in 1..10 : Digits[d] = ch) - 1

RECURSIVE DigitsValue(_, _)
\* the value of the digits text[1..k]
DigitsValue(text, k) ==
  IF k = 0 THEN 0 ELSE 10 * DigitsValue(text, k - 1) + DigitValue(text[k])

\* parseInt(text): an optional sign, then the digits up to the first other
\* character; NaN without a digit
ParseInt(text) ==
  LET signed == text # <<>> /\ text[1] \in {"-", "+"}
      body   == IF signed THEN Tail(text) ELSE text
      stops  == {k \in 1..Len(body) : ~IsDigit(body[k])}
      n      == IF stops = {} THEN Len(body)
                ELSE (CHOOSE k \in stops : \A j \in stops : k <= j) - 1
  IN  IF n = 0 THEN [nan |-> TRUE, value |-> 0]
      ELSE [nan |-> FALSE,
            value |-> IF signed /\ text[1] = "-" THEN -DigitsValue(body, n)
                      ELSE DigitsValue(body, n)]

\* parseInt(e.target.value) || 1
OrOne(parsed) == IF parsed.nan \/ parsed.value = 0 THEN 1 ELSE parsed.value

\* a variant that passes the size through: C9 depends on the clamp
ClampSizeOpen(v) == v

\* lines 96-97: Math.min(Math.max(1, v), 120)
ClampSize(v) == Min(Max(1, v), 120)

\* what the user types into a size field
Typed ==
  { <<>>, <<"0">>, <<"-", "3">>, <<"1", "2", "1">>, <<"1", ".", "5">> }

\* lines 210-213
QuickSizes == {18, 36, 52, 72}

\* lines 85-88: reader.onload of handleImageUpload
ReaderOnload(file) ==
  /\ image' = file
  /\ resultImage' = None
  /\ UNCHANGED <<width, height, algorithm, palette, brightness, isGenerating, task>>
  /\ UNCHANGED <<genVars, earlier, download>>

\* line 192
SetWidth(text) ==
  /\ width' = OrOne(ParseInt(text))
  /\ UNCHANGED <<image, height, algorithm, palette, brightness, isGenerating,
                 resultImage, task>>
  /\ UNCHANGED <<genVars, earlier, download>>

\* line 203
SetHeight(text) ==
  /\ height' = OrOne(ParseInt(text))
  /\ UNCHANGED <<image, width, algorithm, palette, brightness, isGenerating,
                 resultImage, task>>
  /\ UNCHANGED <<genVars, earlier, download>>

\* lines 210-213
QuickSize(size) ==
  /\ width' = size
  /\ height' = size
  /\ UNCHANGED <<image, algorithm, palette, brightness, isGenerating, resultImage, task>>
  /\ UNCHANGED <<genVars, earlier, download>>

\* line 222
SetAlgorithm(alg) ==
  /\ algorithm' = alg
  /\ UNCHANGED <<image, width, height, palette, brightness, isGenerating,
                 resultImage, task>>
  /\ UNCHANGED <<genVars, earlier, download>>

\* lines 93-106: handleGenerate up to its await; the button is disabled
\* without an image and while isGenerating (lines 266-267)
ClickGenerate ==
  /\ image # None
  /\ ~isGenerating
  /\ width' = ClampSize(width)
  /\ height' = ClampSize(height)
  /\ isGenerating' = TRUE
  /\ task' = [stage |-> "loading", imgElement |-> image,
              w |-> ClampSize(width), h |-> ClampSize(height),
              algorithm |-> algorithm, palette |-> palette,
              brightness |-> brightness]
  /\ UNCHANGED <<image, algorithm, palette, brightness, resultImage>>
  /\ UNCHANGED <<genVars, earlier, download>>

\* lines 105-110: imgElement.onload resolves the promise and the timer is set
ImageOnload ==
  /\ task # None
  /\ task.stage = "loading"
  /\ task.imgElement.decodable
  /\ task' = [task EXCEPT !.stage = "timer"]
  /\ UNCHANGED <<image, width, height, algorithm, palette, brightness, isGenerating,
                 resultImage>>
  /\ UNCHANGED <<genVars, earlier, download>>

\* the arguments of the call of line 112
ArgsOf(t) ==
  [imageSource |-> t.imgElement, targetW |-> t.w, targetH |-> t.h,
   algorithm |-> t.algorithm, paletteKey |-> t.palette, brightness |-> t.brightness]

\* does generate throw: lines 42, 69-72, 193-194
GenerateThrows(args, ctx) ==
  \/ IF args.algorithm = "nearest" THEN NearestThrows(ctx)
     ELSE AverageThrows(ctx, CropRect(args.imageSource.width, args.imageSource.height,
                                      args.targetW, args.targetH))
  \/ RenderThrows(ctx)

\* the data URL generate returns for the arguments args
RasterOf(args) == [chartOf |-> args]

\* lines 110-120: the timer's callback, the whole call of generate in it
TimerFires(ctx) ==
  /\ task # None
  /\ task.stage = "timer"
  /\ ctxOk' = ctx
  /\ pc' = IF GenerateThrows(ArgsOf(task), ctx) THEN "thrown" ELSE "returned"
  /\ resultImage' = IF GenerateThrows(ArgsOf(task), ctx) THEN resultImage
                     ELSE RasterOf(ArgsOf(task))
  /\ isGenerating' = FALSE
  /\ task' = None
  /\ UNCHANGED <<image, width, height, algorithm, palette, brightness, download>>
  /\ UNCHANGED <<call, crop, pixels, rawGrid, enhancedGrid, colors, grid, chart, earlier>>

\* line 131: the template literal `perler-pattern-${width}x${height}.png`
FileName(w, h) == "perler-pattern-" \o ToString(w) \o "x" \o ToString(h) \o ".png"

\* lines 128-136: handleDownload; the button is shown with a result (line 289)
HandleDownload ==
  /\ resultImage # None
  /\ download' = [href |-> resultImage, name |-> FileName(width, height)]
  /\ UNCHANGED <<image, width, height, algorithm, palette, brightness, isGenerating,
                 resultImage, task>>
  /\ UNCHANGED <<genVars, earlier>>

InitApp ==
  /\ NoCall
  /\ earlier = None
  /\ AppMounted

(***************************************************************************)
(* Spec: the user uploads files, edits the sizes and generates; every      *)
(* canvas gives a context                                                  *)
(***************************************************************************)
Next ==
  \/ \E file \in Files : ReaderOnload(file)
  \/ \E text \in Typed : SetWidth(text)
  \/ \E text \in Typed : SetHeight(text)
  \/ \E size \in QuickSizes : QuickSize(size)
  \/ ClickGenerate
  \/ ImageOnload
  \/ TimerFires(AllCtx)

Spec == InitApp /\ [][Next]_vars

(***************************************************************************)
(* SpecSurface: the user uploads files, picks algorithms and generates at  *)
(* the default size; any canvas may give no context                        *)
(***************************************************************************)
NextSurface ==
  \/ \E file \in Files : ReaderOnload(file)
  \/ \E alg \in Algorithms : SetAlgorithm(alg)
  \/ ClickGenerate
  \/ ImageOnload
  \/ \E ctx \in CtxStates : TimerFires(ctx)

SpecSurface == InitApp /\ [][NextSurface]_vars

(***************************************************************************)
(* Properties                                                              *)
(***************************************************************************)
\* the crop is the whole source image
WholeSource(c, imgW, imgH) ==
  /\ c.cropX = DZero
  /\ c.cropY = DZero
  /\ c.cropW = DFromInt(imgW)
  /\ c.cropH = DFromInt(imgH)

\* C1: for every source size and every target size the crop rectangle has
\* exactly the target's aspect ratio (cropW * targetH = cropH * targetW), lies
\* within the source, is centred on it, and is the whole source image when
\* sourceW * targetH = sourceH * targetW.
C1CropGeometry ==
  pc # "plan" =>
    LET imgW == call.imageSource.width
        imgH == call.imageSource.height
    IN  /\ ExMul(crop.cropW, DFromInt(call.targetH))
             = ExMul(crop.cropH, DFromInt(call.targetW))
        /\ DLe(DZero, crop.cropX)
        /\ DLe(DZero, crop.cropY)
        /\ DLe(ExAdd(crop.cropX, crop.cropW), DFromInt(imgW))
        /\ DLe(ExAdd(crop.cropY, crop.cropH), DFromInt(imgH))
        /\ ExAdd(ExAdd(crop.cropX, crop.cropX), crop.cropW) = DFromInt(imgW)
        /\ ExAdd(ExAdd(crop.cropY, crop.cropY), crop.cropH) = DFromInt(imgH)
        /\ (imgW * call.targetH = imgH * call.targetW
              => WholeSource(crop, imgW, imgH))

\* clamp(C + brightnessLevel * 15) on each channel of a pixel
ShiftedPixel(px, level) ==
  [r |-> DFromInt(Min(255, Max(0, px[1] + level * 15))),
   g |-> DFromInt(Min(255, Max(0, px[2] + level * 15))),
   b |-> DFromInt(Min(255, Max(0, px[3] + level * 15)))]

IsUniform(picture) ==
  \A y \in 1..picture.height, x \in 1..picture.width :
    picture.data[y][x] = picture.data[1][1]

Cells == {<<r, c>> : r \in 1..call.targetH, c \in 1..call.targetW}

\* C2: with algorithm average and a source whose pixels all have the colour
\* C, every cell of the raw grid equals clamp(C + brightnessLevel * 15) on each
\* channel, whatever the source size, the target size and the brightness level.
C2UniformAverage ==
  (rawGrid # None /\ call.algorithm = "average" /\ IsUniform(call.imageSource))
    => \A p \in Cells :
         rawGrid[p[1]][p[2]]
           = ShiftedPixel(call.imageSource.data[1][1], call.brightness)

\* the truncated crop has exactly targetW x targetH pixels
OnePixelBlocks ==
  /\ rawGrid # None
  /\ call.algorithm = "average"
  /\ cwOf(crop) = call.targetW
  /\ chOf(crop) = call.targetH

\* C3: with algorithm average, when the truncated crop has exactly
\* targetW x targetH pixels, the block of cell (r, c) is the one pixel (r, c)
\* of the crop, the raw cell equals that pixel shifted by the brightness and
\* clamped, and (the crop being the whole source) it is the source pixel
\* (r, c); a 2x2 source of four colours at 2x2 and brightness 0 gives the
\* four source colours.
C3OnePixelBlocks ==
  OnePixelBlocks =>
    /\ \A p \in Cells :
         /\ BlockOf(p[1] - 1, p[2] - 1, cwOf(crop), chOf(crop),
                    call.targetW, call.targetH)
              = [startY |-> p[1] - 1, endY |-> p[1],
                 startX |-> p[2] - 1, endX |-> p[2]]
         /\ rawGrid[p[1]][p[2]] = ShiftedPixel(pixels[p[1]][p[2]], call.brightness)
         /\ WholeSource(crop, call.imageSource.width, call.imageSource.height)
              => pixels[p[1]][p[2]] = call.imageSource.data[p[1]][p[2]]
    /\ (call.imageSource = Quad(2, 2) /\ call.targetW = 2 /\ call.targetH = 2
          /\ call.brightness = 0)
         => rawGrid = << <<ShiftedPixel(Red, 0), ShiftedPixel(Green, 0)>>,
                         <<ShiftedPixel(Blue, 0), ShiftedPixel(White, 0)>> >>

\* the 2x2 scenario of C3 after the block averages
C3Witness ==
  /\ OnePixelBlocks
  /\ call.imageSource = Quad(2, 2)
  /\ call.targetW = 2
  /\ call.targetH = 2
  /\ call.brightness = 0
  /\ Cardinality({rawGrid[p[1]][p[2]] : p \in Cells}) = 4

\* the cells next to p that exist
Around(p) ==
  {q \in Cells : (q[1] = p[1] /\ (q[2] = p[2] - 1 \/ q[2] = p[2] + 1))
                 \/ (q[2] = p[2] /\ (q[1] = p[1] - 1 \/ q[1] = p[1] + 1))}

\* |dr| + |dg| + |db| between the raw colours of two cells, exactly
L1(p, q) ==
  ExAdd(ExAdd(DAbs(ExSub(rawGrid[p[1]][p[2]].r, rawGrid[q[1]][q[2]].r)),
              DAbs(ExSub(rawGrid[p[1]][p[2]].g, rawGrid[q[1]][q[2]].g))),
        DAbs(ExSub(rawGrid[p[1]][p[2]].b, rawGrid[q[1]][q[2]].b)))

\* the L1 distance to the cell at offset d, 0 where there is none
L1At(p, d) ==
  LET q == <<p[1] + d[1], p[2] + d[2]>>
  IN  IF q \in Cells THEN L1(p, q) ELSE DZero

L1Total(p) ==
  ExAdd(ExAdd(L1At(p, <<-1, 0>>), L1At(p, <<1, 0>>)),
        ExAdd(L1At(p, <<0, -1>>), L1At(p, <<0, 1>>)))

\* the mean L1 distance of cell p to its neighbours is below 15
MeanBelow15(p) ==
  \/ Around(p) = {}
  \/ DLt(L1Total(p), DFromInt(15 * Cardinality(Around(p))))

\* C4: in the gradient-enhancement pass a cell whose mean L1 distance to its
\* existing neighbours is below 15 keeps its raw colour on all three
\* channels; the cell of a 1x1 grid has no neighbours and is kept.
C4FlatPassThrough ==
  enhancedGrid # None =>
    \A p \in Cells :
      /\ MeanBelow15(p) => enhancedGrid[p[1]][p[2]] = rawGrid[p[1]][p[2]]
      /\ Around(p) = {} => /\ AvgDiff(rawGrid, p[1], p[2], call.targetW, call.targetH)
                                = DZero
                           /\ enhancedGrid[p[1]][p[2]] = rawGrid[p[1]][p[2]]

\* a cell that differs from its neighbours by less than 15 on average was kept
C4Witness ==
  /\ enhancedGrid # None
  /\ \E p \in Cells :
       /\ MeanBelow15(p)
       /\ L1Total(p) # DZero
       /\ enhancedGrid[p[1]][p[2]] = rawGrid[p[1]][p[2]]

AtLeast15Apart(a, b) ==
  /\ DLe(DFromInt(15), DAbs(ExSub(a.r, b.r)))
  /\ DLe(DFromInt(15), DAbs(ExSub(a.g, b.g)))
  /\ DLe(DFromInt(15), DAbs(ExSub(a.b, b.b)))

\* the raw grid is made of two uniform regions at least 15 apart on every channel
TwoRegions ==
  /\ enhancedGrid # None
  /\ LET seen == {rawGrid[p[1]][p[2]] : p \in Cells}
     IN  /\ Cardinality(seen) = 2
         /\ \A a \in seen, b \in seen : a # b => AtLeast15Apart(a, b)

\* cell p has a neighbour in the other region
TouchesBoundary(p) ==
  \E q \in Around(p) : rawGrid[q[1]][q[2]] # rawGrid[p[1]][p[2]]

Changed(p) == enhancedGrid[p[1]][p[2]] # rawGrid[p[1]][p[2]]

\* C5 as stated: on a raw grid of two uniform regions at least 15 apart on
\* every channel, gradient enhancement changes every cell that touches the
\* boundary and leaves every other cell unchanged.
C5BoundaryChanges ==
  TwoRegions => \A p \in Cells : Changed(p) <=> TouchesBoundary(p)

Inside0To255(v) == DLt(DZero, v) /\ DLt(v, DFromInt(255))

Unsaturated(p) ==
  \/ Inside0To255(rawGrid[p[1]][p[2]].r)
  \/ Inside0To255(rawGrid[p[1]][p[2]].g)
  \/ Inside0To255(rawGrid[p[1]][p[2]].b)

\* C5 amended: on such a raw grid gradient enhancement changes a cell exactly
\* when it touches the boundary, its mean L1 distance to its neighbours is at
\* least 15 and some channel of its raw colour lies strictly between 0 and
\* 255; every cell all of whose neighbours lie in its own region is unchanged.
C5BoundarySharpened ==
  TwoRegions =>
    \A p \in Cells :
      Changed(p) <=> (TouchesBoundary(p) /\ ~MeanBelow15(p) /\ Unsaturated(p))

\* two regions with a changed boundary cell and an interior cell
C5Witness ==
  /\ TwoRegions
  /\ \E p \in Cells : TouchesBoundary(p) /\ Changed(p)
  /\ \E p \in Cells : ~TouchesBoundary(p) /\ ~Changed(p)

\* the call before was the same call one brightness level lower
OneLevelUp ==
  /\ colors # None
  /\ earlier # None
  /\ earlier.call = [call EXCEPT !.brightness = @ - 1]

NoChannelLower(p) ==
  /\ DLe(earlier.colors[p[1]][p[2]].r, colors[p[1]][p[2]].r)
  /\ DLe(earlier.colors[p[1]][p[2]].g, colors[p[1]][p[2]].g)
  /\ DLe(earlier.colors[p[1]][p[2]].b, colors[p[1]][p[2]].b)

\* C7 as stated: for a fixed source image, target size and algorithm, any of
\* the three, raising the brightness level by one lowers no channel of any
\* cell's colour handed to the palette resolver.
C7BrightnessMonotone ==
  OneLevelUp => \A p \in Cells : NoChannelLower(p)

\* C7 amended: the same for the algorithms nearest and average.
C7BrightnessMonotoneUnsharpened ==
  (OneLevelUp /\ call.algorithm \in {"nearest", "average"})
    => \A p \in Cells : NoChannelLower(p)

\* a cell of an average grid became brighter with the level
C7Witness ==
  /\ OneLevelUp
  /\ call.algorithm = "average"
  /\ \E p \in Cells : DLt(earlier.colors[p[1]][p[2]].r, colors[p[1]][p[2]].r)

\* the code of the k-th cell of the row-major scan of the grid
ScanCode(k) == grid[((k - 1) \div Len(grid[1])) + 1][((k - 1) % Len(grid[1])) + 1].code

ScanLength == Len(grid) * Len(grid[1])

\* the place in the scan at which a code is first seen
FirstSeen(code) ==
  CHOOSE k \in 1..ScanLength :
    ScanCode(k) = code /\ \A j \in 1..(k - 1) : ScanCode(j) # code

\* C6: the legend statistics drawPattern computes hold every code of the grid
\* once with its count, ordered by count descending, codes of equal count in
\* the order in which the row-major scan of the grid first meets them; counts
\* A:5, B:3, C:3 first seen in the order A, C, B give the order A, C, B.
C6LegendOrder ==
  chart # None =>
    LET stats == chart.stats
    IN  /\ {stats[i].color.code : i \in 1..Len(stats)}
             = {ScanCode(k) : k \in 1..ScanLength}
        /\ \A i \in 1..Len(stats) :
             stats[i].count
               = Cardinality({k \in 1..ScanLength : ScanCode(k) = stats[i].color.code})
        /\ \A i \in 1..Len(stats), j \in 1..Len(stats) :
             i < j =>
               \/ stats[i].count > stats[j].count
               \/ /\ stats[i].count = stats[j].count
                  /\ FirstSeen(stats[i].color.code) < FirstSeen(stats[j].color.code)
        /\ grid = ExampleGrid
             => [i \in 1..Len(stats) |-> stats[i].color.code]
                  = <<ExampleGrid[1][1].code, ExampleGrid[1][2].code,
                      ExampleGrid[1][3].code>>

\* the legend of the example: A with 5, then C and B with 3 each
C6Witness ==
  /\ chart # None
  /\ grid = ExampleGrid
  /\ [i \in 1..Len(chart.stats) |-> chart.stats[i].count] = <<5, 3, 3>>

\* the call that ended has the arguments of the remembered call
SameCallAgain ==
  /\ pc = "returned"
  /\ earlier # None
  /\ earlier.call = call

\* C8: two calls of generate with the same source pixels, target size,
\* algorithm, palette and brightness level, whatever calls were made before
\* and between them, give the same resolved grid, the same legend statistics
\* and the same canvas dimensions.
C8Deterministic ==
  SameCallAgain =>
    /\ grid = earlier.grid
    /\ chart.stats = earlier.chart.stats
    /\ chart.layout.canvasWidth = earlier.chart.layout.canvasWidth
    /\ chart.layout.canvasHeight = earlier.chart.layout.canvasHeight

\* a gradient-enhanced call has returned for the second time
C8Witness ==
  /\ SameCallAgain
  /\ call.algorithm = "gradient_enhanced"
  /\ call.targetW = 2
  /\ call.targetH = 2

\* C9: after any sequence of width and height edits, quick-size presses and
\* Generate clicks, every call of generate receives a targetW and a targetH
\* that are integers in 1..120.
C9SizesInRange ==
  /\ \A size \in QuickSizes : size \in 1..120
  /\ task # None => /\ ArgsOf(task).targetW \in 1..120
                    /\ ArgsOf(task).targetH \in 1..120

\* generate was called with both bounds of the range, the fields holding
\* other sizes since
C9Witness ==
  /\ task # None
  /\ task.stage = "timer"
  /\ ArgsOf(task).targetW = 120
  /\ ArgsOf(task).targetH = 1
  /\ width = 72
  /\ height = 72

\* the context generate needs at some point is missing
SurfaceMissing(args, ctx) ==
  \/ args.algorithm = "nearest" /\ ~ctx.nearest
  \/ args.algorithm # "nearest" /\ ~ctx.orig
  \/ ~ctx.out

\* the step in which the timer's callback runs
GenerateEnds == task # None /\ task.stage = "timer" /\ task' # task

\* C10: if a drawing surface cannot be acquired in generate (the nearest
\* canvas, the average source canvas or the output canvas), the call throws
\* and returns no raster; the UI keeps resultImage as it was, leaves no
\* generation in flight and clears isGenerating.
C10SurfaceFailure ==
  [][(GenerateEnds /\ SurfaceMissing(ArgsOf(task), ctxOk'))
       => /\ pc' = "thrown"
          /\ resultImage' = resultImage
          /\ isGenerating' = FALSE
          /\ task' = None]_vars

\* a generation failed for want of the output context, the result of the
\* generation before still shown
C10Witness ==
  /\ pc = "thrown"
  /\ ~ctxOk.out
  /\ resultImage # None
  /\ ~isGenerating
  /\ task = None

\* C11: for every positive source size and every target size, average and
\* gradient_enhanced sampling raise no error: the truncated crop
\* floor(cropW) x floor(cropH) has at least one pixel in each dimension, so the
\* source pixel buffer can be created and read.
C11SamplingRaisesNoError ==
  /\ (crop # None => cwOf(crop) >= 1 /\ chOf(crop) >= 1)
  /\ (ctxOk = AllCtx => pc # "thrown")

(***************************************************************************)
(* SpecBlocks: the average branch up to its raw grid, for square pictures  *)
(* and square targets large enough for a block edge to be rounded          *)
(***************************************************************************)
MaxBlockSrc == 15
MaxBlockTarget == 11

InitBlocks ==
  /\ \E w \in 1..MaxBlockSrc, t \in 1..MaxBlockTarget :
       Entered(Args(Split(w, w, (w + 1) \div 2, <<200, 40, 40>>, <<60, 120, 200>>),
                    t, t, "average", 0), AllCtx)
  /\ earlier = None
  /\ AppMounted

NextBlocks ==
  \/ Plan
  \/ AverageSample
  \/ AverageBlocks

SpecBlocks == InitBlocks /\ [][NextBlocks]_vars

\* the block of cell p (1-based) in the current call
BlockAt(p) ==
  BlockOf(p[1] - 1, p[2] - 1, cwOf(crop), chOf(crop), call.targetW, call.targetH)

\* pixel (x, y) of the buffer, 0-based, is summed by the loops over block blk
InBlock(blk, x, y) ==
  /\ blk.startY <= y /\ y < blk.endY
  /\ blk.startX <= x /\ x < blk.endX

\* C12: in average sampling the blocks of the targetH x targetW cells
\* partition the truncated crop: every pixel index read lies inside the
\* cw x ch buffer, blocks of distinct cells are disjoint, and every pixel of
\* the truncated crop belongs to exactly one block.
C12BlocksPartition ==
  (rawGrid # None /\ call.algorithm # "nearest") =>
    LET cw     == cwOf(crop)
        ch     == chOf(crop)
        blocks == {<<p, BlockAt(p)>> : p \in Cells}
    IN  /\ \A b \in blocks :
             /\ 0 <= b[2].startY /\ b[2].endY <= ch
             /\ 0 <= b[2].startX /\ b[2].endX <= cw
        /\ \A x \in 0..(cw - 1), y \in 0..(ch - 1) :
             Cardinality({b \in blocks : InBlock(b[2], x, y)}) = 1

\* the number of pixels the loops of lines 88-96 sum for cell p
BlockCount(p) ==
  LET blk == BlockAt(p)
  IN  SumBlock(pixels, blk.startY, blk.endY, blk.startX, blk.endX,
               bOffsetOf(call.brightness)).count

\* C13: given a positive source size and a target size in 1..120 x 1..120, no
\* average-sampling block is empty: for every cell the pixel count of its
\* block is at least 1, so the count = 1 fallback is never taken.
C13NoEmptyBlock ==
  (rawGrid # None /\ call.algorithm # "nearest") =>
    \A p \in Cells : BlockCount(p) >= 1

\* cell p's block holds no source pixel
EmptyBlock(p) == BlockCount(p) = 0

\* C14: when an average-sampling block contains no source pixel, generate
\* does not fail: the cell's raw colour is (0, 0, 0), sums 0 divided by a count
\* forced to 1, whatever the brightness level, and the remaining cells are
\* processed (the raw grid is complete and the call goes on to resolve it).
C14EmptyBlockIsBlack ==
  (rawGrid # None /\ call.algorithm # "nearest") =>
    /\ pc # "thrown"
    /\ Len(rawGrid) = call.targetH
    /\ \A p \in Cells :
         /\ Len(rawGrid[p[1]]) = call.targetW
         /\ EmptyBlock(p)
              => rawGrid[p[1]][p[2]] = [r |-> DZero, g |-> DZero, b |-> DZero]
         /\ ~EmptyBlock(p)
              => rawGrid[p[1]][p[2]]
                   = RawCell(pixels, BlockAt(p), bOffsetOf(call.brightness))

\* a call at the highest brightness returned a chart although three of its
\* four blocks were empty
C14Witness ==
  /\ pc = "returned"
  /\ call.algorithm = "average"
  /\ call.brightness = MaxBrightness
  /\ call.targetW = 2 /\ call.targetH = 2
  /\ Cardinality({p \in Cells : EmptyBlock(p)}) = 3
  /\ \E p \in Cells : ~EmptyBlock(p) /\ rawGrid[p[1]][p[2]].r # DZero

\* the three channels of a colour
Channels(colour) == <<colour.r, colour.g, colour.b>>

\* channel k of the raw colour the kernel uses in direction d from cell p:
\* the neighbour's where there is one, cell p's own where it is missing
KernelValue(p, d, k) ==
  LET q == <<p[1] + d[1], p[2] + d[2]>>
  IN  IF q \in Cells THEN Channels(rawGrid[q[1]][q[2]])[k]
      ELSE Channels(rawGrid[p[1]][p[2]])[k]

\* the sum of the four direction values, exactly
KernelValues(p, k) ==
  ExAdd(ExAdd(KernelValue(p, <<-1, 0>>, k), KernelValue(p, <<1, 0>>, k)),
        ExAdd(KernelValue(p, <<0, -1>>, k), KernelValue(p, <<0, 1>>, k)))

\* channel k of cell p before the clamp of lines 161-165
PreClamp(p, k) ==
  LET nbs == Neighbors(p[1], p[2], call.targetW, call.targetH)
  IN  Sharpen(Channels(rawGrid[p[1]][p[2]])[k],
              [i \in 1..Len(nbs) |-> Channels(rawGrid[nbs[i][1]][nbs[i][2]])[k]])

\* ten times the distance of the pre-clamp value from
\* 2.2 * center - 0.3 * (sum of the four direction values), exactly
KernelGap(p, k) ==
  DAbs(ExSub(ExMul(DFromInt(10), PreClamp(p, k)),
             ExSub(ExMul(DFromInt(22), Channels(rawGrid[p[1]][p[2]])[k]),
                   ExMul(DFromInt(3), KernelValues(p, k)))))

\* the cells the pass sharpens
Sharpened == {p \in Cells : ~MeanBelow15(p)}

\* C15 as stated: for a sharpened cell the pre-clamp result on each channel
\* equals 2.2 * center - 0.3 * (sum over the four directions of n_d), n_d being
\* the neighbour's raw value where the neighbour exists and the center's
\* where it is missing.
C15KernelExact ==
  enhancedGrid # None =>
    \A p \in Sharpened : \A k \in 1..3 :
      /\ Channels(enhancedGrid[p[1]][p[2]])[k] = DClampByte(PreClamp(p, k))
      /\ KernelGap(p, k) = DZero

\* C15 amended: the pre-clamp result is the binary64 evaluation of that
\* expression and lies within 10^-9 of its real value, for interior, edge and
\* corner cells alike.
C15KernelRounded ==
  enhancedGrid # None =>
    \A p \in Sharpened : \A k \in 1..3 :
      /\ Channels(enhancedGrid[p[1]][p[2]])[k] = DClampByte(PreClamp(p, k))
      /\ DLe(ExMul(KernelGap(p, k), DFromInt(100000000)), DFromInt(1))

\* a 3 x 3 grid with a sharpened corner, a sharpened edge cell and a sharpened
\* interior cell, one of them with an unclamped result that is not exact
C15Witness ==
  /\ enhancedGrid # None
  /\ \A n \in 2..4 : \E p \in Sharpened : Cardinality(Around(p)) = n
  /\ \E p \in Sharpened : \E k \in 1..3 :
       /\ Cardinality(Around(p)) < 4
       /\ Inside0To255(PreClamp(p, k))
       /\ KernelGap(p, k) # DZero

InByteRange(v) == DLe(DZero, v) /\ DLe(v, DFromInt(255))

\* C16: for all three algorithms and every brightness level in -2..2, every
\* channel of every colour passed to the palette resolver lies in [0, 255].
C16ChannelsInRange ==
  colors # None =>
    \A p \in Cells : \A k \in 1..3 : InByteRange(Channels(colors[p[1]][p[2]])[k])

\* at the highest brightness a sharpened channel that left the range was
\* handed over as 255, next to one handed over as a value inside the range
C16Witness ==
  /\ colors # None
  /\ call.algorithm = "gradient_enhanced"
  /\ call.brightness = MaxBrightness
  /\ \E p \in Sharpened : \E k \in 1..3 :
       /\ DLt(DFromInt(255), PreClamp(p, k))
       /\ Channels(colors[p[1]][p[2]])[k] = DFromInt(255)
  /\ \E p \in Cells : Inside0To255(colors[p[1]][p[2]].r)

\* the raw grid with every cell other than p and its neighbours blacked out
Masked(p) ==
  [r \in 1..call.targetH |-> [c \in 1..call.targetW |->
     IF <<r, c>> \in Around(p) \cup {p} THEN rawGrid[r][c]
     ELSE [r |-> DZero, g |-> DZero, b |-> DZero]]]

\* C17: the gradient-enhancement pass does not change its input: when it
\* has finished the raw grid is as before, the enhanced grid has the same
\* targetH x targetW shape, and every enhanced cell is determined by the raw
\* values of the cell and its neighbours alone, whatever the order of visit.
C17EnhanceReadsRaw ==
  [][pc = "enhance" =>
       /\ rawGrid' = rawGrid
       /\ Len(enhancedGrid') = call.targetH
       /\ \A p \in Cells :
            /\ Len(enhancedGrid'[p[1]]) = call.targetW
            /\ enhancedGrid'[p[1]][p[2]]
                 = EnhanceCell(Masked(p), p[1], p[2], call.targetW, call.targetH)]_vars

\* the pass has changed two adjacent cells of a 3 x 3 grid, and a cell away
\* from both differs from them
C17Witness ==
  /\ enhancedGrid # None
  /\ pc = "resolve"
  /\ call.targetW = 3 /\ call.targetH = 3
  /\ \E p \in Cells : \E q \in Around(p) :
       /\ enhancedGrid[p[1]][p[2]] # rawGrid[p[1]][p[2]]
       /\ enhancedGrid[q[1]][q[2]] # rawGrid[q[1]][q[2]]
       /\ \E o \in Cells \ (Around(p) \cup {p}) :
            rawGrid[o[1]][o[2]] # rawGrid[p[1]][p[2]]

\* the colour of cell p before resolution: the enhanced colour, the raw block
\* average, or the clamped resampled pixel
PreResolution(p) ==
  IF call.algorithm = "gradient_enhanced" THEN enhancedGrid[p[1]][p[2]]
  ELSE IF call.algorithm = "average" THEN rawGrid[p[1]][p[2]]
  ELSE NearestColor(pixels, p[1], p[2], bOffsetOf(call.brightness))

\* the resolver's result for a colour
Resolved(colour) == findClosestColor(colour.r, colour.g, colour.b, call.paletteKey)

\* C18: for each algorithm the grid handed to drawPattern has exactly targetH
\* rows of exactly targetW entries, one resolver result per cell, and the
\* entry at (r, c) is the resolver's result for that cell's pre-resolution
\* colour; the chart is drawn from that grid.
C18GridResolved ==
  grid # None =>
    /\ Len(grid) = call.targetH
    /\ \A p \in Cells :
         /\ Len(grid[p[1]]) = call.targetW
         /\ grid[p[1]][p[2]] = Resolved(PreResolution(p))
    /\ chart # None => chart.cells = grid

\* a 3 x 2 chart of an enhanced grid in which a cell resolved to another
\* palette entry than its raw colour would have
C18Witness ==
  /\ pc = "returned"
  /\ call.algorithm = "gradient_enhanced"
  /\ call.targetW = 3 /\ call.targetH = 2
  /\ chart.cells = grid
  /\ \E p \in Cells : grid[p[1]][p[2]] # Resolved(rawGrid[p[1]][p[2]])

RECURSIVE CountsUpTo(_, _)
\* the counts of the first k legend entries added up
CountsUpTo(stats, k) ==
  IF k = 0 THEN 0 ELSE CountsUpTo(stats, k - 1) + stats[k].count

\* C19: for every non-empty resolved grid the legend statistics hold exactly
\* one entry per distinct palette code of the grid, every count is at least 1
\* and is the number of cells carrying that code, and the counts add up to
\* rows * cols.
C19LegendCounts ==
  chart # None =>
    LET stats == chart.stats
        codes == {ScanCode(k) : k \in 1..ScanLength}
    IN  /\ Len(stats) = Cardinality(codes)
        /\ \A code \in codes :
             Cardinality({i \in 1..Len(stats) : stats[i].color.code = code}) = 1
        /\ \A i \in 1..Len(stats) :
             /\ stats[i].color.code \in codes
             /\ stats[i].count >= 1
             /\ stats[i].count
                  = Cardinality({k \in 1..ScanLength : ScanCode(k) = stats[i].color.code})
        /\ CountsUpTo(stats, Len(stats)) = Len(grid) * Len(grid[1])

\* a 2 x 3 grid of three codes, one of them on three cells and one on a
\* single cell
C19Witness ==
  /\ chart # None
  /\ Len(grid) = 2 /\ Len(grid[1]) = 3
  /\ [i \in 1..Len(chart.stats) |-> chart.stats[i].count] = <<3, 2, 1>>

(***************************************************************************)
(* SpecText: charts of grids whose colours lie on both sides of the        *)
(* luminance threshold, at it and next to it                               *)
(***************************************************************************)
MaxTextCols == 1
MaxThresholdRed == 15

\* 1000 times the luminance of a display colour, exactly
Luminance1000(rgb) == 299 * rgb[1] + 587 * rgb[2] + 114 * rgb[3]

\* the colours with at most MaxThresholdRed of red whose luminance is 128 or
\* a thousandth away from it
ThresholdColours ==
  {rgb \in (0..MaxThresholdRed) \X (150..218) \X (0..255) :
     Luminance1000(rgb) \in 127999..128001}

TextLevels == {0, 127, 128, 129, 255}

TextColours == ThresholdColours \cup (TextLevels \X TextLevels \X TextLevels)

\* a palette entry of that colour
TextEntry(rgb) == [code |-> ToString(rgb), rgb |-> rgb]

InitText ==
  /\ \E cols \in 1..MaxTextCols :
       \E row \in [1..cols -> TextColours] :
         grid = << [c \in 1..cols |-> TextEntry(row[c])] >>
  /\ call = None
  /\ ctxOk = AllCtx
  /\ pc = "render"
  /\ crop = None
  /\ pixels = None
  /\ rawGrid = None
  /\ enhancedGrid = None
  /\ colors = None
  /\ chart = None
  /\ earlier = None
  /\ AppMounted

NextText == Render

SpecText == InitText /\ [][NextText]_vars

\* the text colour the design gives a label on a colour
LabelFor(rgb) == IF Luminance1000(rgb) <= 128000 THEN "#ffffff" ELSE "#111827"

\* C20: in the grid and in the legend the code label is drawn in the light
\* text colour exactly when the cell's luminance 0.299R + 0.587G + 0.114B is
\* at most 128 and in the dark text colour exactly when it is above 128.
C20LabelContrast ==
  chart # None =>
    /\ \A r \in 1..Len(grid), c \in 1..Len(grid[1]) :
         chart.cellText[r][c] = LabelFor(grid[r][c].rgb)
    /\ \A i \in 1..Len(chart.stats) :
         chart.statText[i] = LabelFor(chart.stats[i].color.rgb)

\* a chart of a colour of luminance exactly 128 that is not a grey, its
\* label light in the grid and in the legend
C20Witness ==
  /\ chart # None
  /\ Luminance1000(grid[1][1].rgb) = 128000
  /\ grid[1][1].rgb[1] # grid[1][1].rgb[2]
  /\ chart.cellText[1][1] = "#ffffff"
  /\ chart.statText[1] = "#ffffff"

(***************************************************************************)
(* SpecLegend: charts of grids wide enough for a legend of one, two and    *)
(* three items per row, with one to four codes                             *)
(***************************************************************************)
MaxLegendCols == 11

\* a row of cols cells that carries the first n codes of the catalogue in
\* turn, beginning with code shift + 1
LegendRow(cols, n, shift) ==
  [c \in 1..cols |-> PaletteOf("mard")[((c - 1 + shift) % n) + 1]]

InitLegend ==
  /\ \E rows \in 1..2, cols \in 1..MaxLegendCols :
       \E n \in 1..Min(cols, Len(PaletteOf("mard"))) :
         \E shift \in 0..(n - 1) :
           grid = [r \in 1..rows |-> LegendRow(cols, n, shift)]
  /\ call = None
  /\ ctxOk = AllCtx
  /\ pc = "render"
  /\ crop = None
  /\ pixels = None
  /\ rawGrid = None
  /\ enhancedGrid = None
  /\ colors = None
  /\ chart = None
  /\ earlier = None
  /\ AppMounted

NextLegend == Render

SpecLegend == InitLegend /\ [][NextLegend]_vars

\* the colour block of every legend item of the chart, with its index
LegendItems ==
  {<<i, LegendItem(i, chart.layout, Len(chart.stats))>> :
     i \in 0..(Len(chart.stats) - 1)}

\* the number of legend items per row the design gives a grid
PerRowFor(cols) == Max(1, (cols * cellSize) \div (Max(120, cellSize * 3) + 20))

\* C21: the legend is wrapped with max(1, floor(gridWidth / (itemWidth + 20)))
\* items per row, itemWidth = max(120, cellSize * 3); item i is at row
\* floor(i / perRow) and column i mod perRow, no two items share a slot, the
\* legend block is horizontally centered on the canvas, and every colour
\* block of the legend lies entirely inside the canvas.
C21LegendLayout ==
  chart # None =>
    LET perRow == PerRowFor(Len(grid[1]))
        n      == Len(chart.stats)
        blockWidth == Min(n, perRow) * (Max(120, cellSize * 3) + 20) - 20
        items  == LegendItems
    IN  /\ chart.layout.maxStatsPerRow = perRow
        /\ \A it \in items :
             /\ it[2].row = it[1] \div perRow
             /\ it[2].col = it[1] % perRow
             /\ it[2].col = 0 =>
                  DAdd(DAdd(it[2].x, it[2].x), DFromInt(blockWidth))
                    = DFromInt(chart.layout.canvasWidth)
             /\ DLe(DZero, it[2].x)
             /\ DLe(DAdd(it[2].x, DFromInt(cellSize)),
                    DFromInt(chart.layout.canvasWidth))
             /\ DLe(DZero, it[2].y)
             /\ DLe(DAdd(it[2].y, DFromInt(cellSize)),
                    DFromInt(chart.layout.canvasHeight))
        /\ \A it \in items, other \in items :
             (it[2].row = other[2].row /\ it[2].col = other[2].col)
               => it[1] = other[1]

\* a chart whose legend of four codes is wrapped after three items
C21Witness ==
  /\ chart # None
  /\ Len(grid[1]) = 11
  /\ chart.layout.maxStatsPerRow = 3
  /\ Len(chart.stats) = 4
  /\ \E it \in LegendItems : it[2].row = 1 /\ it[2].col = 0

\* C22: whenever resultImage is non-null it was generated from the image
\* that is currently uploaded: a generation started for an earlier image
\* never installs its result after a newer image has been loaded.
C22ResultOfCurrentImage ==
  resultImage # None => resultImage.chartOf.imageSource = image

(***************************************************************************)
(* SpecFair: SpecSurface with the events the browser delivers: the load    *)
(* event of an image that decodes, and the timer of line 110.              *)
(* handleGenerate registers no handler for an image that fails to load.    *)
(***************************************************************************)
SpecFair ==
  /\ InitApp
  /\ [][NextSurface]_vars
  /\ WF_vars(ImageOnload)
  /\ WF_vars(\E ctx \in CtxStates : TimerFires(ctx))

\* C23: after Generate is clicked with an image present isGenerating is true,
\* and it eventually returns to false in every execution, whether the image
\* loads or fails to load and whether generation succeeds or throws.
C23GeneratingEnds == isGenerating ~> ~isGenerating

(***************************************************************************)
(* SpecDownload: the user uploads the photo, edits the width, presses two  *)
(* of the quick sizes, generates and downloads                             *)
(***************************************************************************)
NextDownload ==
  \/ ReaderOnload(Photo)
  \/ \E text \in { <<"0">>, <<"1", "2", "1">> } : SetWidth(text)
  \/ \E size \in {18, 52} : QuickSize(size)
  \/ ClickGenerate
  \/ ImageOnload
  \/ TimerFires(AllCtx)
  \/ HandleDownload

SpecDownload == InitApp /\ [][NextDownload]_vars

\* C24: whenever a result is downloaded, the WxH in the file name
\* perler-pattern-WxH.png is the targetW x targetH the displayed result was
\* generated with.
C24DownloadName ==
  download # None
    => download.name = FileName(download.href.chartOf.targetW,
                                download.href.chartOf.targetH)

====
